---- MODULE Spec2Model ----
(***************************************************************************)
(* Quote distribution server (quote_server) and its liveness monitor.      *)
(*                                                                         *)
(* Time is counted in ticks of 1/TicksPerSec second.  `now` stands for     *)
(* Instant::now(); a record's last_ping is the value of `now` when          *)
(* update_ping ran.                                                        *)
(***************************************************************************)
EXTENDS Integers, Sequences, FiniteSets, TLC

(***************************************************************************)
(* Bounds of the model.                                                    *)
(***************************************************************************)
TicksPerSec == 1
NumIPs == 1
MonMaxTime == 12
LockMaxTime == 7
SysMaxTime == 6
MaxConns == 2
MaxCycles == 2
MaxPings == 2
ScenHorizonSecs == 11
AliveHorizonSecs == 10
ClientMaxRecv == 3
ClientMaxPings == 3

WalkCycles == 925
MixCycles == 2

\* one outcome of what Quote::generate_new draws: the price change in 1/10000 of
\* the price, the volume rolls of random_range(0..5000) and random_range(0..1000),
\* and the reading of the wall clock (Utc::now)
CalmDraw == [change |-> 0, liquid |-> 0, other |-> 0, millis |-> 0]
WildDraw == [change |-> 99, liquid |-> 4999, other |-> 999, millis |-> 1]
BearDraw == [change |-> -100, liquid |-> 2500, other |-> 500, millis |-> 0]

\* the runs explored: many connections and cycles without keep-alives, or keep-alives
\* and timeouts with fewer connections and cycles
Budgets ==
    {[conns |-> MaxConns, cycles |-> MaxCycles, pings |-> 0, time |-> 0, draws |-> {CalmDraw}],
     [conns |-> MaxConns, cycles |-> 0, pings |-> 1, time |-> SysMaxTime, draws |-> {CalmDraw}],
     [conns |-> 1, cycles |-> 1, pings |-> 1, time |-> SysMaxTime, draws |-> {CalmDraw}],
     [conns |-> 1, cycles |-> 0, pings |-> MaxPings, time |-> SysMaxTime, draws |-> {CalmDraw}]}
QuotesBudget ==
    [conns |-> MaxConns, cycles |-> 1, pings |-> 0, time |-> 0, draws |-> {CalmDraw, WildDraw}]
EvictionBudget ==
    [conns |-> MaxConns, cycles |-> 1, pings |-> 1, time |-> SysMaxTime, draws |-> {CalmDraw}]
\* the generator alone: a long run of falling prices, down to the floor of
\* next_price, or a short run in which every draw may fall, stay or rise
WalkBudgets ==
    {[conns |-> 0, cycles |-> WalkCycles, pings |-> 0, time |-> 0, draws |-> {BearDraw}],
     [conns |-> 0, cycles |-> MixCycles, pings |-> 0, time |-> 0,
      draws |-> {BearDraw, CalmDraw, WildDraw}]}
\* one subscriber and a generator whose prices fall or rise
FeedBudget ==
    [conns |-> 1, cycles |-> MixCycles, pings |-> 0, time |-> 0, draws |-> {BearDraw, WildDraw}]
\* subscriptions that ask for nothing the generator produces, next to one that does
QuietBudget ==
    [conns |-> MaxConns, cycles |-> 1, pings |-> 0, time |-> 0, draws |-> {CalmDraw},
     lists |-> {{}, {"AMZN", "NVDA"}, {"AAPL", "MSFT"}}]
\* a subscriber that is evicted and subscribes again
ReturnBudget ==
    [conns |-> MaxConns, cycles |-> 1, pings |-> 1, time |-> SysMaxTime, draws |-> {CalmDraw},
     lists |-> {{"AAPL", "MSFT"}}]
NoBudget == [conns |-> 0, cycles |-> 0, pings |-> 0, time |-> 0, draws |-> {CalmDraw}]

(***************************************************************************)
(* Program constants.                                                      *)
(***************************************************************************)
TIMEOUT_SECS == 5
CHECK_INTERVAL_SECS == 1
INTERVAL_MS == 2000

Timeout == TIMEOUT_SECS * TicksPerSec
check_interval == CHECK_INTERVAL_SECS * TicksPerSec

(***************************************************************************)
(* Addresses.  A SocketAddr is <<ip, port>>.  The shipped client listens   *)
(* for quotes on ListenPort and sends its PING datagrams from a second     *)
(* socket bound to an ephemeral port, PingPort.                            *)
(***************************************************************************)
ListenPort == 1
PingPort == 2
IPs == 1..NumIPs
Ports == {ListenPort, PingPort}
Addr == IPs \X Ports

None == -1

\* no address
NoAddr == <<0, 0>>

\* QuoteGenerator::start: the tickers the generator produces, in its order
tickers == <<"AAPL", "MSFT", "TSLA", "GOOGL">>

\* a price (f64) is counted in units of 1/PriceScale; a product is rounded down
\* to a whole unit
PriceScale == 1000000

\* QuoteGenerator::start: initial_price = 100.0
initial_price == 100 * PriceScale

\* Quote::next_price: the floor of new_price.max(0.01)
min_price == PriceScale \div 100

\* Quote::next_price: random_range(-0.01..0.01), in 1/ChangeScale of the price:
\* from -1% (included) to just under +1%
ChangeScale == 10000
Changes == (0 - (ChangeScale \div 100))..((ChangeScale \div 100) - 1)

\* the datagrams the UDP socket receives
Datagrams == {<<"P", "I", "N", "G">>, <<"P", "I", "N", "G", "!">>, <<"P", "I", "N">>,
              <<"Q", "U", "O", "T", "E">>}

\* a PING test that looks at the first three bytes only
is_ping_short(buf) == Len(buf) >= 3 /\ SubSeq(buf, 1, 3) = <<"P", "I", "N">>

\* UdpPingListener::start: size >= 4 && &buf[..4] == b"PING"
is_ping(buf) == Len(buf) >= 4 /\ SubSeq(buf, 1, 4) = <<"P", "I", "N", "G">>

\* the listener at the top of its loop, before a recv_from has returned
Listening == [at |-> "recv", addr |-> NoAddr, res |-> "none", buf |-> << >>]

VARIABLES
    now,            \* Instant::now(), in ticks
    clients,        \* PingMonitor.clients: SocketAddr -> ClientConnection
    nextScan,       \* the instant the scanner's sleep ends
    lastResult,     \* the value returned by the latest check_timeouts call
    lastScanTime,   \* `now` of the latest check_timeouts call, None before it
    lastUpdate,     \* per address: `now` of its latest update_ping, None before it
    reportLog,      \* per address: the times of the check_timeouts calls that returned it
    pingGaps        \* per address: "none" before its second update_ping, then "short" while
                    \* every time between two consecutive update_ping calls was at most
                    \* Timeout, "long" once one was longer

VARIABLES
    mutex,              \* the Mutex around the PingMonitor is held
    listener,           \* the keep-alive listener: at "recv", or "locked" with the source
                        \* address of the PING it is about to record; res and buf are
                        \* what its latest recv_from returned
    scanner,            \* the timeout scanner: at "sleep", or "locked" inside check_timeouts
                        \* with the map and the time it has read
    process_alive,      \* FALSE once the main thread has panicked (the process is gone)
    receiver,           \* the accept loop: "running", or the error it returned with
    budget,             \* what the environment may do in this run: how many connections,
                        \* generator cycles, PING datagrams and ticks
    client,             \* a quote_client process: its shutdown flag, its receiver loop and
                        \* its ping thread
    conns,              \* the number of TCP connections the accept loop has read so far
    pings,              \* the number of PING datagrams the listener has handled so far
    cmd_rx,             \* the channel cmd_tx -> cmd_rx: (Command, SocketAddr) messages
    stop_rx,            \* the channel stop_tx -> stop_rx: timeout notices
    timed_out_clients,  \* the scanner's check_timeouts result not yet sent on stop_tx
    active_streams,     \* main's HashMap: SocketAddr -> the handles of a stream
    streams,            \* the dispatcher threads spawned so far, in spawn order
    subscribe_rx,       \* the channel subscription_tx -> subscribe_rx: data senders
    gen_clients,        \* the generator's Vec<Sender<QuoteEvent>>
    gen_idx,            \* the generator's position: 0 at the top of its loop, i before
                        \* tickers[i], None once the thread has ended
    cycle,              \* the number of generator cycles started
    current_prices,     \* the generator's HashMap<Ticker, f64>
    produced            \* history, per symbol: how many events the generator has built for
                        \* it, the latest of them, the price it was computed from and
                        \* the price of the event before it

monVars == <<now, clients, nextScan, lastResult, lastScanTime, lastUpdate, reportLog, pingGaps>>
sysVars == <<mutex, listener, scanner, budget, client, process_alive, receiver, conns, pings, cmd_rx, stop_rx, timed_out_clients,
             active_streams, streams, subscribe_rx, gen_clients, gen_idx, cycle, current_prices, produced>>
vars == <<monVars, sysVars>>

(***************************************************************************)
(* PingMonitor (model/ping_monitor.rs).                                    *)
(***************************************************************************)
ClientConnection(t) == [last_ping |-> t, is_active |-> TRUE]

\* PingMonitor::new
PingMonitor_new == << >>

\* update_ping that forgets every other record
update_ping_only(cl, addr, t) == [a \in {addr} |-> ClientConnection(t)]

\* update_ping without its and_modify: an existing record is left as it is
update_ping_insert_only(cl, addr, t) ==
    [a \in (DOMAIN cl) \cup {addr} |-> IF a \in DOMAIN cl THEN cl[a] ELSE ClientConnection(t)]

\* PingMonitor::update_ping: entry(addr).and_modify(..).or_insert(..)
update_ping(cl, addr, t) ==
    [a \in (DOMAIN cl) \cup {addr} |-> IF a = addr THEN ClientConnection(t) ELSE cl[a]]

\* the closure of retain with the scan interval for the timeout
is_timed_out_interval(conn, t) == t - conn.last_ping > check_interval

\* the closure of retain with >= for >
is_timed_out_ge(conn, t) == t - conn.last_ping >= Timeout

\* the closure of retain: TRUE when the record is dropped and pushed to timed_out
is_timed_out(conn, t) == t - conn.last_ping > Timeout

\* check_timeouts that returns every recorded address
check_timeouts_result_all(cl, t) == DOMAIN cl

\* PingMonitor::check_timeouts: the returned addresses (the Vec's order is the
\* HashMap's iteration order, which is unspecified: a set)
check_timeouts_result(cl, t) == {a \in DOMAIN cl : is_timed_out(cl[a], t)}

\* check_timeouts that reports but keeps every record
check_timeouts_retain_all(cl, t) == cl

\* PingMonitor::check_timeouts: the records retained
check_timeouts_retain(cl, t) ==
    [a \in (DOMAIN cl) \ check_timeouts_result(cl, t) |-> cl[a]]

\* is_client_active with unwrap_or(true)
is_client_active_or_true(cl, addr) == IF addr \in DOMAIN cl THEN cl[addr].is_active ELSE TRUE

\* PingMonitor::is_client_active
is_client_active(cl, addr) == IF addr \in DOMAIN cl THEN cl[addr].is_active ELSE FALSE

(***************************************************************************)
(* A call of update_ping(addr) at `now`, with the history it leaves.       *)
(***************************************************************************)
CallUpdatePing(addr) ==
    /\ clients' = update_ping(clients, addr, now)
    /\ pingGaps' = [pingGaps EXCEPT ![addr] =
                    IF lastUpdate[addr] = None THEN "none"
                    ELSE IF now - lastUpdate[addr] > Timeout \/ pingGaps[addr] = "long" THEN "long"
                    ELSE "short"]
    /\ lastUpdate' = [lastUpdate EXCEPT ![addr] = now]

(***************************************************************************)
(* A call of check_timeouts() at `now`, with the history it leaves.        *)
(***************************************************************************)
CallCheckTimeouts ==
    /\ clients' = check_timeouts_retain(clients, now)
    /\ lastResult' = check_timeouts_result(clients, now)
    /\ lastScanTime' = now
    /\ reportLog' = [a \in Addr |->
                        IF a \in check_timeouts_result(clients, now)
                        THEN Append(reportLog[a], now) ELSE reportLog[a]]

MonInit ==
    /\ now = 0
    /\ clients = PingMonitor_new
    /\ lastResult = {}
    /\ lastScanTime = None
    /\ lastUpdate = [a \in Addr |-> None]
    /\ reportLog = [a \in Addr |-> << >>]
    /\ pingGaps = [a \in Addr |-> "none"]

(***************************************************************************)
(* The client (quote_client): the Ctrl+C handler, the receiver loop on the *)
(* main thread and the ping thread.                                        *)
(***************************************************************************)
\* the client after main's set-up: the flag is clear, the receiver loop is at
\* socket.recv and the ping thread at the test of its while
ClientStarted ==
    [shutdown |-> FALSE,    \* the AtomicBool shutdown
     recv |-> "recv",       \* start_receiver_loop: at "recv", or returned "Ok" or "Err"
     last |-> "none",       \* history: what the latest socket.recv returned
     got |-> 0,             \* history: the number of datagrams received
     ping |-> "cond",       \* the ping thread: at "cond" (the while test), "sleep",
                            \* "send", or "stopped"
     sent |-> 0,            \* history: the number of PING datagrams sent
     late |-> 0]            \* history: how many of them were sent with the flag set

\* what socket.recv returns: a datagram, the read timeout (WouldBlock or TimedOut),
\* ConnectionReset, or any other error
RecvOutcomes == {"Ok", "TimedOut", "ConnectionReset", "Other"}

\* a loop that tests the flag only when recv fails
receiver_loop_after_no_test(outcome, shutdown) ==
    IF outcome = "Other" THEN "Err"
    ELSE IF shutdown /\ outcome # "Ok" THEN "Ok"
    ELSE "recv"

\* start_receiver_loop after one socket.recv: return Err on any other error, break
\* and return Ok when the flag is set, else the next turn
receiver_loop_after(outcome, shutdown) ==
    IF outcome = "Other" THEN "Err"
    ELSE IF shutdown THEN "Ok"
    ELSE "recv"

\* one turn of the receiver loop: socket.recv returns
ClientRecv ==
    \E outcome \in RecvOutcomes :
        /\ client.recv = "recv"
        /\ outcome = "Ok" => client.got < ClientMaxRecv
        /\ client' = [client EXCEPT !.recv = receiver_loop_after(outcome, client.shutdown),
                                    !.last = outcome,
                                    !.got = IF outcome = "Ok" THEN @ + 1 ELSE @]
        /\ UNCHANGED <<mutex, listener, scanner, budget, process_alive, receiver, conns, pings,
                       cmd_rx, stop_rx, timed_out_clients, active_streams, streams, subscribe_rx,
                       gen_clients, gen_idx, cycle, current_prices, produced>>
        /\ UNCHANGED monVars

\* the ctrlc handler: shutdown.store(true)
ClientCtrlC ==
    /\ client.recv = "recv"
    /\ ~client.shutdown
    /\ client' = [client EXCEPT !.shutdown = TRUE]
    /\ UNCHANGED <<mutex, listener, scanner, budget, process_alive, receiver, conns, pings,
                   cmd_rx, stop_rx, timed_out_clients, active_streams, streams, subscribe_rx,
                   gen_clients, gen_idx, cycle, current_prices, produced>>
    /\ UNCHANGED monVars

\* the ping thread: while !shutdown.load(..)
ClientPingCond ==
    /\ client.ping = "cond"
    /\ client' = [client EXCEPT !.ping = IF client.shutdown THEN "stopped" ELSE "sleep"]
    /\ UNCHANGED <<mutex, listener, scanner, budget, process_alive, receiver, conns, pings,
                   cmd_rx, stop_rx, timed_out_clients, active_streams, streams, subscribe_rx,
                   gen_clients, gen_idx, cycle, current_prices, produced>>
    /\ UNCHANGED monVars

\* the ping thread: thread::sleep(interval) is over; if shutdown.load(..) { break }
ClientPingWake ==
    /\ client.ping = "sleep"
    /\ client.shutdown \/ client.sent < ClientMaxPings
    /\ client' = [client EXCEPT !.ping = IF client.shutdown THEN "stopped" ELSE "send"]
    /\ UNCHANGED <<mutex, listener, scanner, budget, process_alive, receiver, conns, pings,
                   cmd_rx, stop_rx, timed_out_clients, active_streams, streams, subscribe_rx,
                   gen_clients, gen_idx, cycle, current_prices, produced>>
    /\ UNCHANGED monVars

\* the ping thread: socket.send_to(b"PING", ..); whatever it returns, the loop goes
\* back to its test
ClientPingSend ==
    /\ client.ping = "send"
    /\ client' = [client EXCEPT !.ping = "cond",
                                !.sent = @ + 1,
                                !.late = IF client.shutdown THEN @ + 1 ELSE @]
    /\ UNCHANGED <<mutex, listener, scanner, budget, process_alive, receiver, conns, pings,
                   cmd_rx, stop_rx, timed_out_clients, active_streams, streams, subscribe_rx,
                   gen_clients, gen_idx, cycle, current_prices, produced>>
    /\ UNCHANGED monVars

\* main returns what start_receiver_loop returned: the process ends, and the ping
\* thread with it
ClientExit ==
    /\ client.recv # "recv"
    /\ client.ping # "stopped"
    /\ client' = [client EXCEPT !.ping = "stopped"]
    /\ UNCHANGED <<mutex, listener, scanner, budget, process_alive, receiver, conns, pings,
                   cmd_rx, stop_rx, timed_out_clients, active_streams, streams, subscribe_rx,
                   gen_clients, gen_idx, cycle, current_prices, produced>>
    /\ UNCHANGED monVars

(***************************************************************************)
(* The server after main's set-up (main.rs 103-129): no command, no        *)
(* notice, no stream, the generator at the top of its loop.                *)
(***************************************************************************)
SysInit ==
    /\ mutex = FALSE
    /\ listener = Listening
    /\ scanner = [at |-> "sleep", view |-> << >>, t |-> None]
    /\ process_alive = TRUE
    /\ client = ClientStarted
    /\ receiver = "running"
    /\ conns = 0
    /\ pings = 0
    /\ cmd_rx = << >>
    /\ stop_rx = << >>
    /\ timed_out_clients = {}
    /\ active_streams = << >>
    /\ streams = << >>
    /\ subscribe_rx = << >>
    /\ gen_clients = << >>
    /\ gen_idx = 0
    /\ cycle = 0
    /\ current_prices = [t \in {tickers[i] : i \in 1..Len(tickers)} |-> initial_price]
    /\ produced = << >>

(***************************************************************************)
(* SpecMonitor: the PingMonitor under any sequence of update_ping and      *)
(* check_timeouts calls, at any times.                                     *)
(***************************************************************************)
MonAddr == {<<1, ListenPort>>, <<1, PingPort>>}

MonTick ==
    /\ now < MonMaxTime
    /\ now' = now + 1
    /\ UNCHANGED <<clients, nextScan, lastResult, lastScanTime, lastUpdate, reportLog, pingGaps>>
    /\ UNCHANGED sysVars

MonUpdate ==
    \E addr \in MonAddr :
        /\ CallUpdatePing(addr)
        /\ UNCHANGED <<now, nextScan, lastResult, lastScanTime, reportLog>>
    /\ UNCHANGED sysVars
        /\ UNCHANGED sysVars

MonCheck ==
    /\ CallCheckTimeouts
    /\ UNCHANGED <<now, nextScan, lastUpdate, pingGaps>>
    /\ UNCHANGED sysVars

MonitorInit == MonInit /\ SysInit /\ budget = NoBudget /\ nextScan = 0
MonitorNext == MonTick \/ MonUpdate \/ MonCheck
SpecMonitor == MonitorInit /\ [][MonitorNext]_vars

(***************************************************************************)
(* SpecScenario: one subscriber whose keep-alives arrive exactly at        *)
(* KeepAliveSecs, a scanner that wakes exactly every check_interval (its   *)
(* first wake-up anywhere in (0s, 1s]), and another address that pings     *)
(* whenever it likes.                                                      *)
(***************************************************************************)
Subscriber == <<1, PingPort>>
Other == <<1, ListenPort>>
KeepAliveSecs == {0, 2, 4}
KeepAliveDue == \E s \in KeepAliveSecs : now = s * TicksPerSec /\ lastUpdate[Subscriber] < now

ScenKeepAlive ==
    /\ KeepAliveDue
    /\ CallUpdatePing(Subscriber)
    /\ UNCHANGED <<now, nextScan, lastResult, lastScanTime, reportLog>>
    /\ UNCHANGED sysVars

ScenOtherPing ==
    /\ lastUpdate[Other] < now
    /\ CallUpdatePing(Other)
    /\ UNCHANGED <<now, nextScan, lastResult, lastScanTime, reportLog>>
    /\ UNCHANGED sysVars

ScenScan ==
    /\ now = nextScan
    /\ CallCheckTimeouts
    /\ nextScan' = now + check_interval
    /\ UNCHANGED <<now, lastUpdate, pingGaps>>
    /\ UNCHANGED sysVars

ScenTick ==
    /\ now < ScenHorizonSecs * TicksPerSec
    /\ now < nextScan
    /\ ~KeepAliveDue
    /\ now' = now + 1
    /\ UNCHANGED <<clients, nextScan, lastResult, lastScanTime, lastUpdate, reportLog, pingGaps>>
    /\ UNCHANGED sysVars

ScenarioInit == MonInit /\ SysInit /\ budget = NoBudget /\ nextScan \in 1..check_interval
ScenarioNext == ScenKeepAlive \/ ScenOtherPing \/ ScenScan \/ ScenTick
SpecScenario == ScenarioInit /\ [][ScenarioNext]_vars

(***************************************************************************)
(* SpecLock: the keep-alive listener and the timeout scanner around the    *)
(* Mutex<PingMonitor>.  Each takes the lock in one step and does its call  *)
(* and drops the guard in a later one; check_timeouts reads the clock and  *)
(* the map when it starts and has written the map when it ends.            *)
(***************************************************************************)
\* a lock that never waits
lock_unguarded(m) == TRUE

\* ping_monitor.lock(): returns once the mutex is not held
lock_free(m) == ~m

\* socket.recv_from returned Ok with a PING from src; ping_monitor.lock()
ListenerLock ==
    \E src \in MonAddr, buf \in Datagrams :
        /\ listener.at = "recv"
        /\ is_ping(buf)
        /\ lock_free(mutex)
        /\ mutex' = TRUE
        /\ listener' = [at |-> "locked", addr |-> src, res |-> "Ok", buf |-> buf]
        /\ UNCHANGED <<scanner, budget, client, process_alive, receiver, conns, pings, cmd_rx, stop_rx,
                       timed_out_clients, active_streams, streams, subscribe_rx, gen_clients,
                       gen_idx, cycle, current_prices, produced>>
        /\ UNCHANGED monVars

\* monitor.update_ping(addr); the guard is dropped at the end of the block
ListenerUnlock ==
    /\ listener.at = "locked"
    /\ CallUpdatePing(listener.addr)
    /\ mutex' = FALSE
    /\ listener' = Listening
    /\ UNCHANGED <<now, nextScan, lastResult, lastScanTime, reportLog>>
    /\ UNCHANGED <<scanner, budget, client, process_alive, receiver, conns, pings, cmd_rx, stop_rx,
                   timed_out_clients, active_streams, streams, subscribe_rx, gen_clients,
                   gen_idx, cycle, current_prices, produced>>

\* socket.recv_from returned Err, or Ok with a datagram that is_ping rejects: the
\* two ifs fall through and the loop goes back to recv_from
ListenerSkip ==
    \E res \in {"Ok", "Err"}, src \in MonAddr, buf \in Datagrams :
        /\ listener.at = "recv"
        /\ res = "Ok" => ~is_ping(buf)
        /\ listener' = IF res = "Ok"
                       THEN [at |-> "recv", addr |-> src, res |-> "Ok", buf |-> buf]
                       ELSE [at |-> "recv", addr |-> NoAddr, res |-> "Err", buf |-> << >>]
        /\ UNCHANGED <<mutex, scanner, budget, client, process_alive, receiver, conns, pings, cmd_rx,
                       stop_rx, timed_out_clients, active_streams, streams, subscribe_rx,
                       gen_clients, gen_idx, cycle, current_prices, produced>>
        /\ UNCHANGED monVars

\* after thread::sleep(check_interval): ping_monitor.lock(), and check_timeouts
\* starts
ScannerLock ==
    /\ scanner.at = "sleep"
    /\ timed_out_clients = {}
    /\ now >= nextScan
    /\ lock_free(mutex)
    /\ mutex' = TRUE
    /\ scanner' = [at |-> "locked", view |-> clients, t |-> now]
    /\ UNCHANGED <<listener, budget, client, process_alive, receiver, conns, pings, cmd_rx, stop_rx,
                   timed_out_clients, active_streams, streams, subscribe_rx, gen_clients,
                   gen_idx, cycle, current_prices, produced>>
    /\ UNCHANGED monVars

\* check_timeouts ends: the retained map is written, the result returned and the
\* guard dropped
ScannerUnlock ==
    /\ scanner.at = "locked"
    /\ clients' = check_timeouts_retain(scanner.view, scanner.t)
    /\ lastResult' = check_timeouts_result(scanner.view, scanner.t)
    /\ lastScanTime' = scanner.t
    /\ reportLog' = [a \in Addr |->
                        IF a \in check_timeouts_result(scanner.view, scanner.t)
                        THEN Append(reportLog[a], scanner.t) ELSE reportLog[a]]
    /\ timed_out_clients' = check_timeouts_result(scanner.view, scanner.t)
    /\ nextScan' = IF check_timeouts_result(scanner.view, scanner.t) = {}
                   THEN now + check_interval ELSE nextScan
    /\ mutex' = FALSE
    /\ scanner' = [at |-> "sleep", view |-> << >>, t |-> None]
    /\ UNCHANGED <<now, lastUpdate, pingGaps>>
    /\ UNCHANGED <<listener, budget, client, process_alive, receiver, conns, pings, cmd_rx, stop_rx,
                   active_streams, streams, subscribe_rx, gen_clients, gen_idx, cycle,
                   current_prices, produced>>

LockTick ==
    /\ now < LockMaxTime
    /\ now' = now + 1
    /\ UNCHANGED <<clients, nextScan, lastResult, lastScanTime, lastUpdate, reportLog, pingGaps>>
    /\ UNCHANGED sysVars

(***************************************************************************)
(* SpecAlive: a client whose ping thread sends a PING every INTERVAL_MS,    *)
(* none lost, each taken by the listener within the tick it arrives in,    *)
(* next to a scanner that scans at any time once its sleep is over and     *)
(* another address that pings whenever it likes.  A thread inside the lock *)
(* leaves it before the next tick.                                         *)
(***************************************************************************)
\* sender.rs: Duration::from_millis(INTERVAL_MS), in ticks
ping_interval == (INTERVAL_MS * TicksPerSec) \div 1000

\* a PING of the client has arrived that the listener has not recorded yet
KeepAlivePending ==
    now > 0 /\ now % ping_interval = 0 /\ lastUpdate[Subscriber] < now

\* socket.recv_from returned the client's PING; ping_monitor.lock()
AliveKeepAlive ==
    /\ KeepAlivePending
    /\ listener.at = "recv"
    /\ lock_free(mutex)
    /\ mutex' = TRUE
    /\ listener' = [at |-> "locked", addr |-> Subscriber, res |-> "Ok",
                    buf |-> <<"P", "I", "N", "G">>]
    /\ UNCHANGED <<scanner, budget, client, process_alive, receiver, conns, pings, cmd_rx, stop_rx,
                   timed_out_clients, active_streams, streams, subscribe_rx, gen_clients,
                   gen_idx, cycle, current_prices, produced>>
    /\ UNCHANGED monVars

\* socket.recv_from returned a PING of the other address; ping_monitor.lock()
AliveOtherPing ==
    /\ lastUpdate[Other] < now
    /\ listener.at = "recv"
    /\ lock_free(mutex)
    /\ mutex' = TRUE
    /\ listener' = [at |-> "locked", addr |-> Other, res |-> "Ok",
                    buf |-> <<"P", "I", "N", "G">>]
    /\ UNCHANGED <<scanner, budget, client, process_alive, receiver, conns, pings, cmd_rx, stop_rx,
                   timed_out_clients, active_streams, streams, subscribe_rx, gen_clients,
                   gen_idx, cycle, current_prices, produced>>
    /\ UNCHANGED monVars

AliveTick ==
    /\ now < AliveHorizonSecs * TicksPerSec
    /\ ~KeepAlivePending
    /\ ~mutex
    /\ now' = now + 1
    /\ UNCHANGED <<clients, nextScan, lastResult, lastScanTime, lastUpdate, reportLog, pingGaps>>
    /\ UNCHANGED sysVars

(***************************************************************************)
(* Tickers, quote events, commands and datagrams.                          *)
(***************************************************************************)
\* the ticker lists a subscription command carries (Command.tickers, as a set:
\* handle_client_stream only asks whether a name is contained)
TickerLists == {{"AAPL", "MSFT"}, {"AMZN"}}

\* current_price * (1.0 + change), rounded down to a whole unit; the product is
\* taken in two parts to stay within the integers TLC has
scaled(current_price, change) ==
    current_price + (current_price \div ChangeScale) * change
                  + ((current_price % ChangeScale) * change) \div ChangeScale

\* next_price without its max(0.01)
next_price_unclamped(current_price, change) == scaled(current_price, change)

\* next_price with a change ten times as large
next_price_tenfold(current_price, change) ==
    LET new_price == scaled(current_price, 10 * change)
    IN  IF new_price > min_price THEN new_price ELSE min_price

\* Quote::next_price: current_price * (1.0 + change), at least 0.01
next_price(current_price, change) ==
    LET new_price == scaled(current_price, change)
    IN  IF new_price > min_price THEN new_price ELSE min_price

\* a volume that takes the liquid tier for every ticker
volume_of_liquid(ticker, draw) == 1000 + draw.liquid

\* Quote::generate_new: the volume of a tick of the ticker
volume_of(ticker, draw) ==
    IF ticker \in {"AAPL", "MSFT", "TSLA"} THEN 1000 + draw.liquid ELSE 100 + draw.other

\* Quote::generate_new
generate_new(ticker, current_price, draw) ==
    [ticker |-> ticker,
     price |-> next_price(current_price, draw.change),
     volume |-> volume_of(ticker, draw),
     timestamp |-> draw.millis]

\* QuoteEvent::Quote(quote), with the cycle c that produced it as history
QuoteEvent(quote, c) ==
    [kind |-> "Quote", cycle |-> c, ticker |-> quote.ticker, price |-> quote.price,
     volume |-> quote.volume, timestamp |-> quote.timestamp]

\* the values of Command.port, a String
PortStrings == {"1", "2", "x1"}

\* what a TCP connection delivers: bytes that are no JSON Command, or the JSON
\* of a Command
NotJson == [json |-> FALSE, port |-> "x1", tickers |-> {}]
Payloads ==
    {NotJson} \cup [json : {TRUE}, port : PortStrings,
                    tickers : IF "lists" \in DOMAIN budget THEN budget.lists ELSE TickerLists]

\* how a connection ends up in the accept loop
ConnKinds == {"accept error", "read error", "read ok"}

\* serde_json::from_slice::<Command> returning Ok
decode_ok(buf) == buf.json

\* cmd.port.parse::<u16>(), None for Err
parse_port(port) == IF port = "1" THEN 1 ELSE IF port = "2" THEN 2 ELSE None

\* the address the shipped client's PING datagrams come from, for the address
\* its subscription command declares
PingAddrOf(data_addr) == <<data_addr[1], PingPort>>

\* history: addr had an entry in active_streams and the timeout arm has removed it
\* (nothing else removes an entry)
evicted(addr) ==
    /\ addr \notin DOMAIN active_streams
    /\ \E s \in 1..Len(streams) : streams[s].addr = addr

(***************************************************************************)
(* A dispatcher thread (handle_client_stream) with its two channels.       *)
(***************************************************************************)
new_stream(addr, tks) ==
    [addr |-> addr,             \* target_addr
     tickers_str |-> tks,       \* tickers_str
     state |-> "Running",       \* "Running" inside the loop, "Terminated" after it
     exit |-> "none",           \* why the loop was left
     data_rx |-> << >>,         \* the channel client_data_tx -> data_rx
     stop_msgs |-> 0,           \* the () messages in the channel shutdown_tx -> stop_rx
     stop_tx_alive |-> TRUE,    \* shutdown_tx is not dropped yet
     recvd |-> << >>,           \* history: the events taken from data_rx
     sent |-> << >>,            \* history: the quotes send_to delivered to target_addr
     pinged |-> FALSE,          \* history: the subscriber's client has sent a keep-alive
     reborn |-> evicted(addr),  \* history: the address had lost its entry to a timeout
     subscribed |-> [cycle |-> cycle, idx |-> gen_idx]]
                                \* history: where the generator was when the sender was
                                \* put into subscribe_rx

\* a filter that takes an empty list for a subscription to everything
wanted_or_empty(tickers_str, quote) == tickers_str = {} \/ quote.ticker \in tickers_str

\* the filter with its test removed
wanted_any(tickers_str, quote) == TRUE

\* handle_client_stream: tickers_str.contains(&quote.ticker)
wanted(tickers_str, quote) == quote.ticker \in tickers_str

\* a send that delivers the datagram twice
send_to_twice(sent, quote) == Append(Append(sent, quote), quote)

\* socket.send_to(&data, target_addr) returning Ok: one more datagram to target_addr
send_to(sent, quote) == Append(sent, quote)

\* leaving the loop: the thread ends and drops data_rx and stop_rx
terminate(st, why) ==
    [st EXCEPT !.state = "Terminated", !.exit = why, !.data_rx = << >>, !.stop_msgs = 0]

\* select!: recv(stop_rx) is ready on a message and on a disconnected channel
stop_ready(st) == st.stop_msgs > 0 \/ ~st.stop_tx_alive

\* handle_client_stream, the arm recv(stop_rx) -> _ => break
DispatchStop ==
    \E s \in 1..Len(streams) :
        /\ process_alive
        /\ streams[s].state = "Running"
        /\ stop_ready(streams[s])
        /\ streams' = [streams EXCEPT ![s] = terminate(@, "stop")]
        /\ UNCHANGED <<mutex, listener, scanner, budget, client, process_alive, receiver, conns, pings, cmd_rx, stop_rx, timed_out_clients,
                       active_streams, subscribe_rx, gen_clients, gen_idx, cycle, current_prices, produced>>
        /\ UNCHANGED monVars

\* a dispatcher that takes the newest message of data_rx first
on_event_newest(st, send_ok) ==
    LET msg == st.data_rx[Len(st.data_rx)]
        took == [st EXCEPT !.data_rx = SubSeq(@, 1, Len(@) - 1), !.recvd = Append(@, msg)]
    IN  IF msg.kind = "Shutdown" THEN terminate(took, "shutdown")
        ELSE IF ~wanted(st.tickers_str, msg) THEN took
        ELSE IF send_ok THEN [took EXCEPT !.sent = send_to(@, msg)]
        ELSE terminate(took, "send error")

\* the stream after one message of data_rx, send_ok telling whether send_to succeeds
on_event(st, send_ok) ==
    LET msg == Head(st.data_rx)
        took == [st EXCEPT !.data_rx = Tail(@), !.recvd = Append(@, msg)]
    IN  IF msg.kind = "Shutdown" THEN terminate(took, "shutdown")
        ELSE IF ~wanted(st.tickers_str, msg) THEN took
        ELSE IF send_ok THEN [took EXCEPT !.sent = send_to(@, msg)]
        ELSE terminate(took, "send error")

\* handle_client_stream, the arm recv(data_rx) -> msg
DispatchEvent ==
    \E s \in 1..Len(streams), send_ok \in BOOLEAN :
        /\ process_alive
        /\ streams[s].state = "Running"
        /\ streams[s].data_rx # << >>
        /\ streams' = [streams EXCEPT ![s] = on_event(@, send_ok)]
        /\ UNCHANGED <<mutex, listener, scanner, budget, client, process_alive, receiver, conns, pings, cmd_rx, stop_rx, timed_out_clients,
                       active_streams, subscribe_rx, gen_clients, gen_idx, cycle, current_prices, produced>>
        /\ UNCHANGED monVars

(***************************************************************************)
(* The generator thread (QuoteGenerator::start).                           *)
(***************************************************************************)
\* a broadcast that prices the event anew for every subscriber
offer_repriced(event, s) == [event EXCEPT !.price = @ + s]

\* event.clone(): what client_tx.send puts into the channel of subscriber s
offer(event, s) == event

\* a send that fails once a receiver of the same address is dropped
send_is_ok_per_address(s) ==
    \A r \in 1..Len(streams) :
        streams[r].addr = streams[s].addr => streams[r].state = "Running"

\* a send that never fails
send_is_ok_always(s) == TRUE

\* a send that fails for every sender once one receiver is dropped
send_is_ok_for_all(s) ==
    \A i \in 1..Len(gen_clients) : streams[gen_clients[i]].state = "Running"

\* client_tx.send(event.clone()).is_ok(): the receiver is not dropped
send_is_ok(s) == streams[s].state = "Running"

\* a retain pass that also covers the senders still waiting in subscribe_rx
recipients_eager(list, rx) == list \o rx

\* the senders a retain pass covers: the generator's Vec, clients
recipients(list, rx) == list

\* the top of the loop: while let Ok(new_client_tx) = subscribe_rx.try_recv()
GenAdmit ==
    /\ process_alive
    /\ gen_idx = 0
    /\ cycle < budget.cycles
    /\ gen_clients' = gen_clients \o subscribe_rx
    /\ subscribe_rx' = << >>
    /\ cycle' = cycle + 1
    /\ gen_idx' = 1
    /\ UNCHANGED <<mutex, listener, scanner, budget, client, process_alive, receiver, conns, pings, cmd_rx, stop_rx, timed_out_clients,
                   active_streams, streams, current_prices, produced>>
    /\ UNCHANGED monVars

\* a loop that stops one ticker early
next_idx_short(i) == IF i >= Len(tickers) - 1 THEN 0 ELSE i + 1

\* for ticker in &tickers: the position after ticker i, 0 (the sleep and the top
\* of the loop) after the last one
next_idx(i) == IF i = Len(tickers) THEN 0 ELSE i + 1

\* a tick that starts from the initial price every time
base_price_initial(prices, ticker) == initial_price

\* *current_prices.get(ticker).unwrap_or(&initial_price)
base_price(prices, ticker) == IF ticker \in DOMAIN prices THEN prices[ticker] ELSE initial_price

\* history: one more event built, from the price base
note_event(pr, event, base) ==
    [t \in (DOMAIN pr) \cup {event.ticker} |->
        IF t = event.ticker
        THEN [count |-> IF t \in DOMAIN pr THEN pr[t].count + 1 ELSE 1,
              event |-> event,
              base |-> base,
              prev |-> IF t \in DOMAIN pr THEN pr[t].event.price ELSE None]
        ELSE pr[t]]

\* one turn of for ticker in &tickers: clients.retain(|tx| tx.send(event.clone()).is_ok());
\* after the last ticker, the sleep and back to the top
GenTick ==
    /\ process_alive
    /\ gen_idx \in 1..Len(tickers)
    /\ \E draw \in budget.draws :
        LET ticker == tickers[gen_idx]
            current_price == base_price(current_prices, ticker)
            quote == generate_new(ticker, current_price, draw)
            event == QuoteEvent(quote, cycle)
        IN  /\ current_prices' = [current_prices EXCEPT ![ticker] = quote.price]
            /\ produced' = note_event(produced, event, current_price)
            /\ streams' = [s \in 1..Len(streams) |->
                            IF (\E i \in 1..Len(recipients(gen_clients, subscribe_rx)) :
                                    recipients(gen_clients, subscribe_rx)[i] = s) /\ send_is_ok(s)
                            THEN [streams[s] EXCEPT !.data_rx = Append(@, offer(event, s))]
                            ELSE streams[s]]
            /\ gen_clients' = SelectSeq(gen_clients, send_is_ok)
    /\ gen_idx' = next_idx(gen_idx)
    /\ UNCHANGED <<mutex, listener, scanner, budget, client, process_alive, receiver, conns, pings, cmd_rx, stop_rx, timed_out_clients,
                   active_streams, subscribe_rx, cycle>>
    /\ UNCHANGED monVars

\* a println! of the generator thread panics (stdout is closed): the thread ends
\* and drops subscribe_rx with what is in it, and its clients
GenPanic ==
    /\ process_alive
    /\ gen_idx = 0
    /\ cycle = 0 \/ subscribe_rx # << >>
    /\ gen_idx' = None
    /\ subscribe_rx' = << >>
    /\ gen_clients' = << >>
    /\ UNCHANGED <<mutex, listener, scanner, budget, client, process_alive, receiver, conns, pings, cmd_rx,
                   stop_rx, timed_out_clients, active_streams, streams, cycle, current_prices,
                   produced>>
    /\ UNCHANGED monVars

(***************************************************************************)
(* The command receiver thread (QuoteReceiver::receive_loop_with_channel). *)
(***************************************************************************)
\* what the loop is after a connection: still running, or returned with an error
receiver_after(kind, buf) ==
    IF kind # "read ok" THEN "running"
    ELSE IF ~decode_ok(buf) THEN "JSON error"
    ELSE IF parse_port(buf.port) = None THEN "Invalid UDP port in command"
    ELSE "running"

\* SocketAddr::new(client_tcp_addr.ip(), port)
target_udp_addr(ip, cmd) == <<ip, parse_port(cmd.port)>>

\* the channel after tx.send((cmd, target_udp_addr))
cmd_rx_after(ip, kind, buf) ==
    IF kind = "read ok" /\ receiver_after(kind, buf) = "running"
    THEN Append(cmd_rx, [tickers |-> buf.tickers, addr |-> target_udp_addr(ip, buf)])
    ELSE cmd_rx

\* one turn of for stream in self.socket.incoming()
ReceiveConnection ==
    \E ip \in IPs, kind \in ConnKinds, buf \in Payloads :
        /\ process_alive
        /\ receiver = "running"
        /\ conns < budget.conns
        /\ conns' = IF kind = "read ok" THEN conns + 1 ELSE conns
        /\ receiver' = receiver_after(kind, buf)
        /\ cmd_rx' = cmd_rx_after(ip, kind, buf)
        /\ UNCHANGED <<mutex, listener, scanner, budget, client, process_alive, pings, stop_rx, timed_out_clients, active_streams, streams,
                       subscribe_rx, gen_clients, gen_idx, cycle, current_prices, produced>>
        /\ UNCHANGED monVars

(***************************************************************************)
(* The keep-alive listener thread (UdpPingListener::start).                *)
(***************************************************************************)
\* history: the Running streams of the client that pings from src have a live client
note_ping(src) ==
    [s \in 1..Len(streams) |->
        IF streams[s].state = "Running" /\ streams[s].addr[2] = ListenPort
           /\ PingAddrOf(streams[s].addr) = src
        THEN [streams[s] EXCEPT !.pinged = TRUE] ELSE streams[s]]

\* socket.recv_from(&mut buf) returning Ok((size, addr))
ListenerRecv ==
    \E src \in Addr, buf \in Datagrams :
        /\ process_alive
        /\ IF is_ping(buf)
           THEN /\ pings < budget.pings
                /\ pings' = pings + 1
                /\ CallUpdatePing(src)
                /\ streams' = note_ping(src)
           ELSE UNCHANGED <<pings, clients, lastUpdate, pingGaps, streams>>
        /\ UNCHANGED <<now, nextScan, lastResult, lastScanTime, reportLog>>
        /\ UNCHANGED <<mutex, listener, scanner, budget, client, process_alive, receiver, conns, cmd_rx, stop_rx, timed_out_clients,
                       active_streams, subscribe_rx, gen_clients, gen_idx, cycle, current_prices, produced>>

(***************************************************************************)
(* The timeout scanner thread (start_ping_monitor).                        *)
(***************************************************************************)
\* after thread::sleep(check_interval): monitor.check_timeouts() under the lock
ScannerCheck ==
    /\ process_alive
    /\ timed_out_clients = {}
    /\ now >= nextScan
    /\ CallCheckTimeouts
    /\ timed_out_clients' = check_timeouts_result(clients, now)
    /\ nextScan' = IF check_timeouts_result(clients, now) = {} THEN now + check_interval
                   ELSE nextScan
    /\ UNCHANGED <<now, lastUpdate, pingGaps>>
    /\ UNCHANGED <<mutex, listener, scanner, budget, client, process_alive, receiver, conns, pings, cmd_rx, stop_rx, active_streams, streams,
                   subscribe_rx, gen_clients, gen_idx, cycle, current_prices, produced>>

\* one turn of for client_addr in timed_out_clients: stop_tx.send(client_addr);
\* after the last one, the next sleep starts
ScannerSend ==
    \E client_addr \in timed_out_clients :
        /\ process_alive
        /\ stop_rx' = Append(stop_rx, client_addr)
        /\ timed_out_clients' = timed_out_clients \ {client_addr}
        /\ nextScan' = IF timed_out_clients = {client_addr} THEN now + check_interval
                       ELSE nextScan
        /\ UNCHANGED <<now, clients, lastResult, lastScanTime, lastUpdate, reportLog, pingGaps>>
        /\ UNCHANGED <<mutex, listener, scanner, budget, client, process_alive, receiver, conns, pings, cmd_rx, active_streams, streams,
                       subscribe_rx, gen_clients, gen_idx, cycle, current_prices, produced>>

(***************************************************************************)
(* The main loop (main.rs 131-172).                                        *)
(***************************************************************************)
\* a HashMap with key k bound to v
map_insert(m, k, v) == [x \in (DOMAIN m) \cup {k} |-> IF x = k THEN v ELSE m[x]]

\* a HashMap without key k
map_remove(m, k) == [x \in (DOMAIN m) \ {k} |-> m[x]]

\* the streams once the handles active_streams held for addr are dropped
drop_handles(addr) ==
    [s \in 1..Len(streams) |->
        IF addr \in DOMAIN active_streams /\ active_streams[addr] = s
        THEN [streams[s] EXCEPT !.stop_tx_alive = FALSE] ELSE streams[s]]

\* a subscription send that never fails
subscribe_ok_always(idx) == TRUE

\* subscription_tx.send(client_data_tx.clone()) returning Ok: the generator thread
\* still holds subscribe_rx
subscribe_ok(idx) == idx # None

\* the arm recv(cmd_rx) -> msg, msg = Ok((cmd, target_udp_addr)); on a failed
\* subscription send the command is given up (continue)
MainCommand ==
    /\ process_alive
    /\ cmd_rx # << >>
    /\ LET msg == Head(cmd_rx)
           s == Len(streams) + 1
       IN  /\ cmd_rx' = Tail(cmd_rx)
           /\ IF subscribe_ok(gen_idx)
              THEN /\ subscribe_rx' = Append(subscribe_rx, s)
                   /\ active_streams' = map_insert(active_streams, msg.addr, s)
                   /\ streams' = Append(drop_handles(msg.addr),
                                        new_stream(msg.addr, msg.tickers))
              ELSE UNCHANGED <<subscribe_rx, active_streams, streams>>
    /\ UNCHANGED <<mutex, listener, scanner, budget, client, process_alive, receiver, conns, pings, stop_rx, timed_out_clients,
                   gen_clients, gen_idx, cycle, current_prices, produced>>
    /\ UNCHANGED monVars

\* the streams after shutdown_tx.send(()) and the drop of the removed handles
send_stop(s) ==
    [streams EXCEPT ![s] =
        IF @.state = "Running"
        THEN [@ EXCEPT !.stop_msgs = @ + 1, !.stop_tx_alive = FALSE]
        ELSE [@ EXCEPT !.stop_tx_alive = FALSE]]

\* the arm recv(stop_rx) -> addr, addr = Ok(client_addr): the entry is removed and
\* its stream told to stop, or the main thread panics and the process ends
MainStop ==
    /\ process_alive
    /\ stop_rx # << >>
    /\ LET client_addr == Head(stop_rx)
       IN  /\ stop_rx' = Tail(stop_rx)
           /\ IF client_addr \in DOMAIN active_streams
              THEN /\ active_streams' = map_remove(active_streams, client_addr)
                   /\ streams' = send_stop(active_streams[client_addr])
                   /\ process_alive' = TRUE
              ELSE /\ process_alive' = FALSE
                   /\ UNCHANGED <<active_streams, streams>>
    /\ UNCHANGED <<mutex, listener, scanner, budget, client, receiver, conns, pings, cmd_rx, timed_out_clients, subscribe_rx, gen_clients,
                   gen_idx, cycle, current_prices, produced>>
    /\ UNCHANGED monVars

(***************************************************************************)
(* Spec: the server, all its threads interleaved.                          *)
(***************************************************************************)
\* the clock; the scanner wakes up when its sleep is over, so a due scan and its
\* notices come before the next tick
Tick ==
    /\ process_alive
    /\ now < budget.time
    /\ now < nextScan
    /\ now' = now + 1
    /\ UNCHANGED <<clients, nextScan, lastResult, lastScanTime, lastUpdate, reportLog, pingGaps>>
    /\ UNCHANGED sysVars

Init == MonInit /\ SysInit /\ budget \in Budgets /\ nextScan = check_interval
Next ==
    \/ Tick
    \/ ReceiveConnection
    \/ ListenerRecv
    \/ ScannerCheck
    \/ ScannerSend
    \/ MainCommand
    \/ MainStop
    \/ GenAdmit
    \/ GenTick
    \/ DispatchEvent
    \/ DispatchStop
Spec == Init /\ [][Next]_vars

\* the server with every thread going on: the main loop, the scanner, the generator
\* and the dispatchers each run on their own thread, and a dispatcher's select!
\* takes a ready stop_rx in the end (crossbeam's select! picks at random among the
\* ready operations); what clients send and the passing of time are not forced
SpecLive ==
    /\ Init
    /\ [][Next]_vars
    /\ WF_vars(MainCommand)
    /\ WF_vars(MainStop)
    /\ WF_vars(ScannerCheck)
    /\ WF_vars(ScannerSend)
    /\ WF_vars(GenAdmit)
    /\ WF_vars(GenTick)
    /\ WF_vars(DispatchEvent)
    /\ WF_vars(DispatchStop)

\* the streaming side of the server with quotes that differ from draw to draw: the
\* command receiver, the main loop's command arm, the generator and the dispatchers,
\* while no keep-alive arrives and no scan is due
QuotesInit == MonInit /\ SysInit /\ budget = QuotesBudget /\ nextScan = check_interval
QuotesNext ==
    \/ ReceiveConnection
    \/ MainCommand
    \/ GenAdmit
    \/ GenTick
    \/ DispatchEvent
    \/ DispatchStop
SpecQuotes == QuotesInit /\ [][QuotesNext]_vars

\* the listener and the scanner around the lock, and the scanner's notices
LockInit == MonInit /\ SysInit /\ budget = NoBudget /\ nextScan = check_interval
LockNext ==
    \/ LockTick
    \/ ListenerLock
    \/ ListenerSkip
    \/ ListenerUnlock
    \/ ScannerLock
    \/ ScannerUnlock
    \/ ScannerSend
SpecLock == LockInit /\ [][LockNext]_vars

\* the client that keeps pinging, the listener, the scanner and the lock
AliveInit == MonInit /\ SysInit /\ budget = NoBudget /\ nextScan = check_interval
AliveNext ==
    \/ AliveTick
    \/ AliveKeepAlive
    \/ AliveOtherPing
    \/ ListenerUnlock
    \/ ScannerLock
    \/ ScannerUnlock
    \/ ScannerSend
SpecAlive == AliveInit /\ [][AliveNext]_vars

\* subscriptions next to a generator thread that may end: the command receiver, the
\* main loop's command arm, the generator and the dispatchers' data arm
SubscribeInit == MonInit /\ SysInit /\ budget = QuotesBudget /\ nextScan = check_interval
SubscribeNext ==
    \/ ReceiveConnection
    \/ MainCommand
    \/ GenAdmit
    \/ GenTick
    \/ GenPanic
    \/ DispatchEvent
SpecSubscribe == SubscribeInit /\ [][SubscribeNext]_vars

\* the streaming side of the server with subscriptions to no symbol at all and to
\* symbols the generator does not produce
QuietInit == MonInit /\ SysInit /\ budget = QuietBudget /\ nextScan = check_interval
SpecQuiet == QuietInit /\ [][QuotesNext]_vars

\* the server with one keep-alive that times out and two subscriptions to AAPL and
\* MSFT
ReturnInit == MonInit /\ SysInit /\ budget = ReturnBudget /\ nextScan = check_interval
SpecReturn == ReturnInit /\ [][Next]_vars

\* the client's threads all go on: recv returns after its read timeout of 5 s at
\* the latest, a sleep ends, a send_to returns; Ctrl+C may never come
ClientInit == MonInit /\ SysInit /\ budget = NoBudget /\ nextScan = check_interval
ClientNext ==
    \/ ClientRecv
    \/ ClientCtrlC
    \/ ClientPingCond
    \/ ClientPingWake
    \/ ClientPingSend
    \/ ClientExit
SpecClient ==
    /\ ClientInit
    /\ [][ClientNext]_vars
    /\ WF_vars(ClientRecv)
    /\ WF_vars(ClientPingCond)
    /\ WF_vars(ClientPingWake)
    /\ WF_vars(ClientPingSend)
    /\ WF_vars(ClientExit)

\* the generator thread alone, no subscriber
WalkInit == MonInit /\ SysInit /\ budget \in WalkBudgets /\ nextScan = check_interval
WalkNext == GenAdmit \/ GenTick
SpecWalk == WalkInit /\ [][WalkNext]_vars

\* the generator with at most one subscriber, whose dispatcher may meet a send
\* error: the command receiver, the main loop's command arm, the generator and the
\* dispatcher's data arm
FeedInit == MonInit /\ SysInit /\ budget = FeedBudget /\ nextScan = check_interval
FeedNext ==
    \/ ReceiveConnection
    \/ MainCommand
    \/ GenAdmit
    \/ GenTick
    \/ DispatchEvent
SpecFeed == FeedInit /\ [][FeedNext]_vars

\* the server with two subscriptions, one generator cycle and one keep-alive that
\* times out
EvictionInit == MonInit /\ SysInit /\ budget = EvictionBudget /\ nextScan = check_interval
SpecEviction == EvictionInit /\ [][Next]_vars

(***************************************************************************)
(* Claims about the PingMonitor.                                           *)
(***************************************************************************)
\* the number of check_timeouts calls that returned a since its latest update_ping
ReportsSinceUpdate(a) ==
    Cardinality({i \in 1..Len(reportLog[a]) : reportLog[a][i] > lastUpdate[a]})

\* C8: an address silent for longer than the timeout is returned by exactly one
\* check_timeouts call of that silence period: it has been returned since its
\* latest update_ping if and only if a call ran more than Timeout after that
\* update, it was returned once, and its record is gone since.
C8_ExactlyOnceReport ==
    \A a \in Addr :
        lastUpdate[a] # None =>
            /\ ReportsSinceUpdate(a) <= 1
            /\ (ReportsSinceUpdate(a) = 1) <=> (lastScanTime - lastUpdate[a] > Timeout)
            /\ (ReportsSinceUpdate(a) = 1) => a \notin DOMAIN clients

\* C8 witness: an address was returned once and a later call did not return it again
C8_Witness ==
    \E a \in Addr :
        /\ Len(reportLog[a]) = 1
        /\ ReportsSinceUpdate(a) = 1
        /\ lastScanTime > reportLog[a][1]

\* C9: while every gap between consecutive update_ping(a) calls, and the time since
\* the latest one, is at most Timeout, no check_timeouts call has returned a; and
\* the record of a is the one a single call at the time of the latest call leaves.
C9_RepeatedUpdateKeepsAlive ==
    \A a \in Addr :
        lastUpdate[a] # None =>
            /\ (pingGaps[a] # "long" /\ now - lastUpdate[a] <= Timeout) => reportLog[a] = << >>
            /\ a \in DOMAIN clients => clients[a] = ClientConnection(lastUpdate[a])

\* C9 witness: update_ping(a) was repeated over more than one timeout with scans in
\* between and after, and a was never returned
C9_Witness ==
    \E a \in Addr :
        /\ pingGaps[a] = "short"
        /\ lastUpdate[a] > Timeout
        /\ lastScanTime >= lastUpdate[a]
        /\ reportLog[a] = << >>
        /\ a \in DOMAIN clients

\* C10: with keep-alives at 0, 2 and 4 s, a 5 s timeout and a scan every second, the
\* subscriber is returned by no scan up to 9 s, by the one scan in (9 s, 10 s], and
\* by no scan after it.
C10_ScenarioReportedOnce ==
    /\ \A i \in 1..Len(reportLog[Subscriber]) :
            /\ reportLog[Subscriber][i] > 9 * TicksPerSec
            /\ reportLog[Subscriber][i] <= 10 * TicksPerSec
    /\ Len(reportLog[Subscriber]) <= 1
    /\ nextScan > 10 * TicksPerSec => Len(reportLog[Subscriber]) = 1

\* C10 witness: the subscriber was returned once and a later scan has run
C10_Witness ==
    /\ Len(reportLog[Subscriber]) = 1
    /\ lastScanTime > reportLog[Subscriber][1]
    /\ now > 10 * TicksPerSec

(***************************************************************************)
(* Claims about the server.                                                *)
(***************************************************************************)
\* the quotes of seq the subscription tks asks for, in order
wanted_of(tks, seq) ==
    LET Test(q) == q.kind = "Quote" /\ wanted(tks, q)
    IN  SelectSeq(seq, Test)

\* the symbols of the events of seq, in order
symbols_of(seq) == [i \in 1..Len(seq) |-> seq[i].ticker]

\* the events of seq that cycle c of the generator produced
of_cycle(seq, c) ==
    LET Test(q) == q.kind = "Quote" /\ q.cycle = c
    IN  SelectSeq(seq, Test)

\* a timeout notice for address a is on its way to the main loop
PendingNotice(a) == a \in timed_out_clients \/ \E i \in 1..Len(stop_rx) : stop_rx[i] = a

\* a scan has reported a since its latest keep-alive and the main loop has taken
\* the notice
TimeoutHandled(a) ==
    /\ lastUpdate[a] # None
    /\ ReportsSinceUpdate(a) >= 1
    /\ ~PendingNotice(a)

\* C1: every quote a dispatcher has sent to its subscriber's address has a symbol
\* of that subscription's requested set.
C1_OnlyRequestedSymbols ==
    \A s \in 1..Len(streams) :
        \A i \in 1..Len(streams[s].sent) :
            streams[s].sent[i].ticker \in streams[s].tickers_str

\* C1 witness: a dispatcher has taken an event outside its requested set and has
\* sent a quote
C1_Witness ==
    \E s \in 1..Len(streams) :
        /\ streams[s].sent # << >>
        /\ \E i \in 1..Len(streams[s].recvd) :
                streams[s].recvd[i].ticker \notin streams[s].tickers_str

\* C2: a dispatcher that met no send failure has sent exactly the requested-symbol
\* events it received, each once and in order (after a send failure, all of them
\* but the one that failed); a subscription to AAPL and MSFT that received the four
\* events of a generator cycle has sent that cycle's AAPL and MSFT events and
\* nothing else of the cycle.
C2_WantedSentExactlyOnce ==
    \A s \in 1..Len(streams) :
        LET st == streams[s]
        IN  /\ st.exit # "send error" => st.sent = wanted_of(st.tickers_str, st.recvd)
            /\ st.exit = "send error" =>
                    Append(st.sent, st.recvd[Len(st.recvd)]) = wanted_of(st.tickers_str, st.recvd)
            /\ \A c \in 1..MaxCycles :
                    (/\ st.tickers_str = {"AAPL", "MSFT"}
                     /\ st.exit # "send error"
                     /\ Len(of_cycle(st.recvd, c)) = Len(tickers))
                    => symbols_of(of_cycle(st.sent, c)) = <<"AAPL", "MSFT">>

\* C2 witness: a Running dispatcher subscribed to AAPL and MSFT has received the
\* four events of a cycle and sent two quotes
C2_Witness ==
    \E s \in 1..Len(streams) :
        /\ streams[s].state = "Running"
        /\ streams[s].tickers_str = {"AAPL", "MSFT"}
        /\ Len(of_cycle(streams[s].recvd, 1)) = Len(tickers)
        /\ Len(streams[s].sent) = 2

\* C3: once a scan has reported the keep-alive address of a subscribed client that
\* went silent and the main loop has taken the notice, no further quote is sent to
\* that client's data address.
C3_NoQuoteAfterTimeout ==
    [][\A s \in 1..Len(streams) :
            (streams[s].pinged /\ TimeoutHandled(PingAddrOf(streams[s].addr)))
            => streams'[s].sent = streams[s].sent]_vars

\* C4: a timeout notice for the keep-alive address of a client whose subscription
\* is in active_streams names a key of active_streams.
C4_NoticeMatchesMapEntry ==
    \A s \in 1..Len(streams) :
        (/\ streams[s].pinged
         /\ streams[s].addr \in DOMAIN active_streams
         /\ active_streams[streams[s].addr] = s
         /\ PendingNotice(PingAddrOf(streams[s].addr)))
        => PingAddrOf(streams[s].addr) \in DOMAIN active_streams

\* C5: when the main loop takes a timeout notice for an address that is no key of
\* active_streams, the map stays as it is and the process goes on.
C5_AbsentNoticeIsNoOp ==
    [][(/\ stop_rx # << >>
        /\ stop_rx' = Tail(stop_rx)
        /\ Head(stop_rx) \notin DOMAIN active_streams)
       => (process_alive' /\ active_streams' = active_streams)]_vars

\* C6: the accept loop of the command receiver is running, whatever the
\* connections it has read carried.
C6_AcceptLoopKeepsRunning == receiver = "running"

\* C7: while the server runs, an address is a key of active_streams if and only if
\* a dispatcher created for that address is Running.
C7_MapIffDispatcherRunning ==
    process_alive =>
        \A addr \in Addr :
            addr \in DOMAIN active_streams
            <=> \E s \in 1..Len(streams) :
                    streams[s].addr = addr /\ streams[s].state = "Running"

(***************************************************************************)
(* More claims about the PingMonitor.                                      *)
(***************************************************************************)
\* C11: a check_timeouts call returns exactly the recorded addresses whose time
\* since the last update_ping is strictly greater than the timeout, removes
\* exactly those records and leaves every other record as it was.
C11_ExactResultAndRemoval ==
    [][(now' = now /\ lastUpdate' = lastUpdate /\ pingGaps' = pingGaps) =>
          /\ lastResult' = {a \in DOMAIN clients : now - clients[a].last_ping > Timeout}
          /\ DOMAIN clients' = (DOMAIN clients) \ lastResult'
          /\ \A a \in DOMAIN clients' : clients'[a] = clients[a]]_monVars

\* C11 witness: the latest call returned an address and kept a record whose
\* elapsed time equals the timeout
C11_Witness ==
    /\ lastScanTime = now
    /\ lastResult # {}
    /\ \E a \in DOMAIN clients : now - clients[a].last_ping = Timeout

(***************************************************************************)
(* Claims about the lifecycle of dispatchers.                              *)
(***************************************************************************)
\* a dispatcher of the address runs
RunningFor(addr) ==
    {s \in 1..Len(streams) : streams[s].addr = addr /\ streams[s].state = "Running"}

\* the main loop has put a stop message into the channel of dispatcher s
StopSent(s) == s <= Len(streams) /\ streams[s].stop_msgs > 0

\* dispatcher s has left its loop
IsTerminated(s) == s <= Len(streams) /\ streams[s].state = "Terminated"

\* a dispatcher that was sent a stop message leaves its loop, unless the process
\* has ended before
StopTerminatesUnlessAborted ==
    \A s \in 1..MaxConns :
        StopSent(s) ~> (IsTerminated(s) \/ ~process_alive)

\* C12: when the main loop processes a stop for an address of the map, the address
\* leaves the map; the dispatcher that was sent the stop message eventually is
\* Terminated; and a Terminated dispatcher sends no further quote.
C12_StopTerminatesDispatcher ==
    /\ [][\A s \in 1..Len(streams) :
            streams'[s].stop_msgs > streams[s].stop_msgs
            => streams[s].addr \notin DOMAIN active_streams']_vars
    /\ [][\A s \in 1..Len(streams) :
            streams[s].state = "Terminated" => streams'[s].sent = streams[s].sent]_vars
    /\ \A s \in 1..MaxConns : StopSent(s) ~> IsTerminated(s)

\* dispatcher s left its loop on its own: a failed send or the Shutdown event
SelfTerminated(s) ==
    /\ IsTerminated(s)
    /\ streams[s].exit \in {"send error", "shutdown"}

\* the entry of active_streams made for dispatcher s is in the map
Registered(s) ==
    /\ s <= Len(streams)
    /\ streams[s].addr \in DOMAIN active_streams
    /\ active_streams[streams[s].addr] = s

\* C13: after a dispatcher has terminated on its own, its entry leaves
\* active_streams.
C13_SelfTerminationCleansMap ==
    \A s \in 1..MaxConns : SelfTerminated(s) ~> ~Registered(s)

\* C14: at most one dispatcher is Running for any address.
C14_OneDispatcherPerAddress ==
    \A addr \in Addr : Cardinality(RunningFor(addr)) <= 1

(***************************************************************************)
(* Claims about subscriptions and keep-alives.                             *)
(***************************************************************************)
\* C15: every address with a subscription in active_streams has had an
\* update_ping call, so that the scanner reports it once it stays silent.
C15_SubscriptionUpdatesMonitor ==
    \A addr \in DOMAIN active_streams : lastUpdate[addr] # None

\* C16: a keep-alive sets the liveness record of one address, its source, to the
\* time of arrival and changes nothing else: the other records, active_streams,
\* the dispatchers, the generator's list and its subscribe channel stay as they
\* were, and no dispatcher is created.
C16_KeepAliveFrame ==
    [][pings' = pings + 1 =>
          /\ \E src \in Addr :
                /\ DOMAIN clients' = (DOMAIN clients) \cup {src}
                /\ clients'[src] = ClientConnection(now)
                /\ \A a \in (DOMAIN clients) \ {src} : clients'[a] = clients[a]
          /\ active_streams' = active_streams
          /\ gen_clients' = gen_clients
          /\ subscribe_rx' = subscribe_rx
          /\ Len(streams') = Len(streams)
          /\ \A s \in 1..Len(streams) :
                [streams'[s] EXCEPT !.pinged = streams[s].pinged] = streams[s]]_vars

\* C16 witness: an address was evicted, its dispatcher has terminated, and a later
\* keep-alive from it has re-created its record
C16_Witness ==
    \E a \in Addr :
        /\ reportLog[a] # << >>
        /\ a \in DOMAIN clients
        /\ a \notin DOMAIN active_streams
        /\ \E s \in 1..Len(streams) :
                /\ streams[s].addr = a
                /\ streams[s].state = "Terminated"
                /\ streams[s].exit = "stop"
        /\ RunningFor(a) = {}

(***************************************************************************)
(* Claims about the generator's broadcast.                                 *)
(***************************************************************************)
\* the events the generator has put into the channel of subscriber s that are
\* still known: those the dispatcher took and those waiting in data_rx
Offered(s) == streams[s].recvd \o streams[s].data_rx

\* the subscriber's sender is in the generator's list
InList(s) == \E i \in 1..Len(gen_clients) : gen_clients[i] = s

\* C17: for a symbol of a cycle, every subscriber in the generator's list whose
\* channel is open is offered an event of that symbol with the price the
\* generator has just drawn, and all subscribers are offered the same event: two
\* events of the same cycle and symbol in any two channels are equal in price,
\* volume and timestamp.
C17_SameEventForAll ==
    /\ [](\A s1, s2 \in 1..Len(streams) :
            \A i \in 1..Len(Offered(s1)), j \in 1..Len(Offered(s2)) :
                (/\ Offered(s1)[i].cycle = Offered(s2)[j].cycle
                 /\ Offered(s1)[i].ticker = Offered(s2)[j].ticker)
                => Offered(s1)[i] = Offered(s2)[j])
    /\ [][(gen_idx \in 1..Len(tickers) /\ gen_idx' # gen_idx) =>
            \A s \in 1..Len(streams) :
                (InList(s) /\ streams[s].state = "Running") =>
                    LET q == streams'[s].data_rx
                    IN  /\ Len(q) = Len(streams[s].data_rx) + 1
                        /\ q[Len(q)].ticker = tickers[gen_idx]
                        /\ q[Len(q)].cycle = cycle
                        /\ q[Len(q)].price = current_prices'[tickers[gen_idx]]]_vars

\* C17 witness: two dispatchers have taken the event of one symbol and cycle, and
\* its price is a changed price
C17_Witness ==
    \E s1, s2 \in 1..Len(streams) :
        /\ s1 # s2
        /\ \E i \in 1..Len(streams[s1].recvd), j \in 1..Len(streams[s2].recvd) :
                /\ streams[s1].recvd[i] = streams[s2].recvd[j]
                /\ streams[s1].recvd[i].price # initial_price

\* C18: a sender enters the generator's list only at the top of the loop, before
\* the first symbol of a cycle; the events a subscriber is offered are whole
\* cycles, symbol after symbol and cycle after cycle from its first one; and its
\* first event is of a cycle that started after its sender was put into
\* subscribe_rx.
C18_AdmittedAtNextCycle ==
    /\ [](\A s \in 1..Len(streams) :
            \A i \in 1..Len(Offered(s)) :
                /\ Offered(s)[i].ticker = tickers[((i - 1) % Len(tickers)) + 1]
                /\ Offered(s)[i].cycle = Offered(s)[1].cycle + ((i - 1) \div Len(tickers))
                /\ Offered(s)[i].cycle > streams[s].subscribed.cycle)
    /\ [][\A s \in 1..Len(streams') :
            (/\ \E i \in 1..Len(gen_clients') : gen_clients'[i] = s
             /\ ~InList(s))
            => (gen_idx = 0 /\ gen_idx' = 1)]_vars

\* C18 witness: a subscriber whose sender was put into subscribe_rx in the middle
\* of a cycle has been offered the whole next cycle
C18_Witness ==
    \E s \in 1..Len(streams) :
        /\ streams[s].subscribed.idx > 1
        /\ Len(Offered(s)) = Len(tickers)
        /\ Offered(s)[1].cycle = streams[s].subscribed.cycle + 1

\* C19: when a dispatcher terminates on a send error, every other dispatcher and
\* the generator's list stay as they are; and when the generator sends an event,
\* it drops from its list exactly the senders whose receiver is gone, while every
\* other listed subscriber stays listed, keeps Running and is offered the event.
C19_FailureIsLocal ==
    /\ [][\A s \in 1..Len(streams) :
            (streams[s].exit # "send error" /\ streams'[s].exit = "send error") =>
                /\ gen_clients' = gen_clients
                /\ \A t \in 1..Len(streams) : t # s => streams'[t] = streams[t]]_vars
    /\ [][(gen_idx \in 1..Len(tickers) /\ gen_idx' # gen_idx) =>
            \A t \in 1..Len(streams) :
                IF InList(t) /\ streams[t].state = "Running"
                THEN /\ \E i \in 1..Len(gen_clients') : gen_clients'[i] = t
                     /\ streams'[t].state = "Running"
                     /\ Len(streams'[t].data_rx) = Len(streams[t].data_rx) + 1
                ELSE /\ \A i \in 1..Len(gen_clients') : gen_clients'[i] # t
                     /\ streams'[t] = streams[t]]_vars

\* C19 witness: one dispatcher has terminated on a send error and its sender was
\* dropped from the list, and another subscriber admitted in the same cycle is
\* listed, Running and has been offered more events since
C19_Witness ==
    \E s, t \in 1..Len(streams) :
        /\ streams[s].exit = "send error"
        /\ ~InList(s)
        /\ InList(t)
        /\ streams[t].state = "Running"
        /\ Offered(t) # << >>
        /\ Offered(t)[1] = streams[s].recvd[1]
        /\ Len(Offered(t)) > Len(streams[s].recvd) + 1

\* the subscriber's sender waits in subscribe_rx
InSubscribeRx(s) == \E i \in 1..Len(subscribe_rx) : subscribe_rx[i] = s

\* C20: the generator's next send of an event drops from its list every sender
\* whose dispatcher has terminated, and a sender that is neither listed nor
\* waiting in subscribe_rx is never listed again: a dropped receiver sees at most
\* one failed send.
C20_PrunedAtNextSend ==
    /\ [][(gen_idx \in 1..Len(tickers) /\ gen_idx' # gen_idx) =>
            \A s \in 1..Len(streams) :
                (InList(s) /\ streams[s].state = "Terminated")
                => \A i \in 1..Len(gen_clients') : gen_clients'[i] # s]_vars
    /\ [][\A s \in 1..Len(streams) :
            (~InList(s) /\ ~InSubscribeRx(s))
            => \A i \in 1..Len(gen_clients') : gen_clients'[i] # s]_vars

\* C20 witness: a dispatcher that had taken events has terminated, and a send has
\* dropped its sender from the list while a later symbol of the cycle is due
C20_Witness ==
    \E s \in 1..Len(streams) :
        /\ streams[s].state = "Terminated"
        /\ streams[s].recvd # << >>
        /\ ~InList(s)
        /\ ~InSubscribeRx(s)
        /\ gen_idx \in 2..Len(tickers)

(***************************************************************************)
(* Claims about the generated quotes.                                      *)
(***************************************************************************)
\* the symbols the generator tracks
Tracked == {tickers[i] : i \in 1..Len(tickers)}

\* C21: the stored price of every tracked symbol and the price of every event the
\* generator has built are at least the floor 0.01; the stored prices start at 100.
C21_PriceAtLeastFloor ==
    /\ \A t \in Tracked : current_prices[t] >= min_price
    /\ \A t \in DOMAIN produced : produced[t].event.price >= min_price
    /\ cycle = 0 => \A t \in Tracked : current_prices[t] = 100 * PriceScale

\* C21 witness: the price of a symbol was above the floor, its product with the
\* drawn change was below the floor, and the event carries the floor
C21_Witness ==
    \E t \in DOMAIN produced :
        /\ produced[t].base > min_price
        /\ scaled(produced[t].base, BearDraw.change) < min_price
        /\ produced[t].event.price = min_price
        /\ current_prices[t] = min_price

\* the price of the event before the latest one of symbol t, 100 before its
\* first event
PreviousPrice(t) == IF produced[t].prev = None THEN 100 * PriceScale ELSE produced[t].prev

\* C22: for every symbol, the price of an event lies within 1% of the price of the
\* symbol's event before it (of 100 for the first event): it is at least 0.99
\* times and at most 1.01 times the old price, each product rounded down to the
\* unit of the representation; also when the floor applies.
C22_WithinOnePercent ==
    \A t \in DOMAIN produced :
        /\ produced[t].event.price >= scaled(PreviousPrice(t), 0 - (ChangeScale \div 100))
        /\ produced[t].event.price <= scaled(PreviousPrice(t), ChangeScale \div 100)

\* C22 witness: the product of a price above the floor with the drawn change was
\* below the floor, so that the new price is the floor and not the product
C22_Witness ==
    \E t \in DOMAIN produced :
        /\ produced[t].prev # None
        /\ produced[t].prev > min_price
        /\ produced[t].event.price = min_price
        /\ scaled(produced[t].prev, BearDraw.change) < produced[t].event.price

(***************************************************************************)
(* The cycle of a liveness record.                                         *)
(***************************************************************************)
\* C23: is_client_active(a) is false for an address never seen; it is true from an
\* update_ping(a) until a check_timeouts call returns a; from then on a has no
\* record and is_client_active(a) is false until the next update_ping(a), after
\* which a can be returned again, once.
C23_RecordCycle ==
    \A a \in Addr :
        /\ lastUpdate[a] = None => ~is_client_active(clients, a)
        /\ lastUpdate[a] # None =>
                /\ is_client_active(clients, a) <=> ReportsSinceUpdate(a) = 0
                /\ ReportsSinceUpdate(a) <= 1
        /\ is_client_active(clients, a) <=> a \in DOMAIN clients

\* C23 witness: an address was returned, became active again by an update_ping,
\* and was returned a second time: it has no record and is not active
C23_Witness ==
    \E a \in Addr :
        /\ Len(reportLog[a]) = 2
        /\ lastUpdate[a] >= reportLog[a][1]
        /\ lastUpdate[a] < reportLog[a][2]
        /\ ~is_client_active(clients, a)
        /\ a \notin DOMAIN clients

(***************************************************************************)
(* The ways out of a dispatcher's loop.                                    *)
(***************************************************************************)
\* dispatcher s takes the step that ends its loop
Leaves(s) == streams[s].state = "Running" /\ streams'[s].state = "Terminated"

\* dispatcher s takes an event from data_rx
TakesEvent(s) ==
    /\ streams[s].data_rx # << >>
    /\ streams'[s].recvd = Append(streams[s].recvd, Head(streams[s].data_rx))

\* C24: a dispatcher leaves Running only by taking the Shutdown event, by taking
\* a stop message that was sent on its stop channel, or by a failed send of a
\* quote it took; taking a quote of a symbol not requested, or a quote whose send
\* succeeds, keeps it Running.
C24_LeavesRunningOnThreeCauses ==
    [][\A s \in 1..Len(streams) :
            /\ Leaves(s) =>
                    \/ TakesEvent(s) /\ Head(streams[s].data_rx).kind = "Shutdown"
                    \/ streams[s].stop_msgs > 0 /\ streams'[s].exit = "stop"
                    \/ /\ TakesEvent(s)
                       /\ wanted(streams[s].tickers_str, Head(streams[s].data_rx))
                       /\ streams'[s].sent = streams[s].sent
                       /\ streams'[s].exit = "send error"
            /\ (/\ streams[s].state = "Running"
                /\ TakesEvent(s)
                /\ Head(streams[s].data_rx).kind = "Quote"
                /\ \/ ~wanted(streams[s].tickers_str, Head(streams[s].data_rx))
                   \/ streams'[s].sent # streams[s].sent)
               => streams'[s].state = "Running"]_vars

\* the same with a fourth way out: the stop channel is disconnected, its sender
\* dropped
LeavesRunningOnFourCauses ==
    [][\A s \in 1..Len(streams) :
            Leaves(s) =>
                \/ TakesEvent(s) /\ Head(streams[s].data_rx).kind = "Shutdown"
                \/ streams[s].stop_msgs > 0 /\ streams'[s].exit = "stop"
                \/ ~streams[s].stop_tx_alive /\ streams'[s].exit = "stop"
                \/ /\ TakesEvent(s)
                   /\ wanted(streams[s].tickers_str, Head(streams[s].data_rx))
                   /\ streams'[s].sent = streams[s].sent
                   /\ streams'[s].exit = "send error"]_vars

(***************************************************************************)
(* The lock around the liveness records.                                   *)
(***************************************************************************)
\* C25: the listener's update_ping and the scanner's check_timeouts are never
\* inside the lock together; while a scan is under way the map is the one it
\* read, so that every update is entirely before or entirely after the scan; and
\* no completed update is lost: an address whose latest update_ping was not
\* followed by a report has its record, with the time of that update.
C25_MonitorAccessExclusive ==
    /\ ~(listener.at = "locked" /\ scanner.at = "locked")
    /\ mutex <=> (listener.at = "locked" \/ scanner.at = "locked")
    /\ scanner.at = "locked" => scanner.view = clients
    /\ \A a \in Addr :
            lastUpdate[a] # None =>
                /\ a \in DOMAIN clients <=> ReportsSinceUpdate(a) = 0
                /\ a \in DOMAIN clients => clients[a] = ClientConnection(lastUpdate[a])

\* C25 witness: a scan is under way that is about to report an address, the
\* listener is outside the lock, and an address an earlier scan reported has been
\* updated since
C25_Witness ==
    /\ scanner.at = "locked"
    /\ listener.at = "recv"
    /\ check_timeouts_result(scanner.view, scanner.t) # {}
    /\ \E a \in Addr : Len(reportLog[a]) = 1 /\ lastUpdate[a] > reportLog[a][1]

(***************************************************************************)
(* The generator's progress.                                               *)
(***************************************************************************)
\* the generator goes on as long as the process lives: every cycle the run has is
\* started and completed, whatever the dispatchers do
GeneratorCyclesUnlessAborted ==
    []<>((gen_idx = 0 /\ cycle = budget.cycles) \/ ~process_alive)

\* C26: the generator never stops and no subscriber blocks it: every cycle the
\* run has is started in the end and completed, whether the dispatchers take
\* their events, leave them in their channels or have terminated.
C26_GeneratorKeepsCycling == []<>(gen_idx = 0 /\ cycle = budget.cycles)

(***************************************************************************)
(* A second subscription from the same address.                            *)
(***************************************************************************)
\* a later subscription was registered for the address of dispatcher s (the
\* last dispatcher of a run, number MaxConns, has none after it)
Superseded(s) ==
    /\ s <= Len(streams)
    /\ \E t \in (s + 1)..Len(streams) : streams[t].addr = streams[s].addr

\* the main loop takes a command for an address that is a key of active_streams
Resubscribes ==
    /\ cmd_rx # << >>
    /\ cmd_rx' = Tail(cmd_rx)
    /\ Head(cmd_rx).addr \in DOMAIN active_streams

\* the earlier dispatcher of a re-subscribed address terminates, unless the
\* process has ended before
SupersededTerminatesUnlessAborted ==
    \A s \in 1..(MaxConns - 1) : Superseded(s) ~> (IsTerminated(s) \/ ~process_alive)

\* C27: a command for an address that is a key of active_streams replaces the
\* entry by the handles of the new dispatcher, and the earlier dispatcher of that
\* address eventually is Terminated, after which it forwards nothing.
C27_ResubscriptionReplaces ==
    /\ [][Resubscribes =>
            /\ Len(streams') = Len(streams) + 1
            /\ active_streams'[Head(cmd_rx).addr] = Len(streams')
            /\ streams'[Len(streams')].state = "Running"]_vars
    /\ \A s \in 1..(MaxConns - 1) : Superseded(s) ~> IsTerminated(s)

(***************************************************************************)
(* The events of a generator cycle.                                        *)
(***************************************************************************)
\* the number of events the generator has built for symbol t
Count(t) == IF t \in DOMAIN produced THEN produced[t].count ELSE 0

\* C28: every cycle builds exactly one event for each of AAPL, MSFT, TSLA and
\* GOOGL, in this order, and none for another symbol: in cycle c, the symbols
\* before the generator's position have c events, the k-th of them built in
\* cycle k, and the symbols from its position on have c - 1.
C28_OneEventPerSymbolInOrder ==
    LET order == <<"AAPL", "MSFT", "TSLA", "GOOGL">>
    IN  /\ DOMAIN produced \subseteq {order[i] : i \in 1..4}
        /\ gen_idx \in 0..4
        /\ \A i \in 1..4 :
                Count(order[i]) = IF gen_idx = 0 \/ i < gen_idx THEN cycle ELSE cycle - 1
        /\ \A t \in DOMAIN produced :
                /\ produced[t].event.ticker = t
                /\ produced[t].event.cycle = produced[t].count

\* C28 witness: in its second cycle the generator has built the events of AAPL
\* and MSFT and is about to build the one of TSLA
C28_Witness ==
    /\ cycle = 2
    /\ gen_idx = 3
    /\ Count("AAPL") = 2
    /\ Count("MSFT") = 2
    /\ Count("TSLA") = 1
    /\ Count("GOOGL") = 1

(***************************************************************************)
(* The price state.                                                        *)
(***************************************************************************)
\* C29: the price a tick of a symbol starts from is the price of the symbol's
\* event before it (100 for its first tick), and the stored price of a symbol is
\* the price of its latest event, whether or not a subscriber is listed or a
\* send has failed; a stored price changes only in the generator's turn for that
\* symbol, which builds one more event of it.
C29_BaseIsPreviousEventPrice ==
    /\ [](\A t \in Tracked :
            /\ current_prices[t] =
                    IF t \in DOMAIN produced THEN produced[t].event.price ELSE 100 * PriceScale
            /\ t \in DOMAIN produced => produced[t].base = PreviousPrice(t))
    /\ [][\A t \in Tracked :
            current_prices'[t] # current_prices[t] =>
                /\ gen_idx \in 1..Len(tickers)
                /\ t = tickers[gen_idx]
                /\ gen_idx' # gen_idx
                /\ Count(t)' = Count(t) + 1]_vars

\* C29 witness: the only dispatcher has terminated on a send error and was dropped
\* from the generator's list, and with no subscriber left a second tick of a
\* symbol started from the changed price of its first event
C29_Witness ==
    /\ Len(streams) = 1
    /\ streams[1].exit = "send error"
    /\ gen_clients = << >>
    /\ \E t \in DOMAIN produced :
            /\ produced[t].count = 2
            /\ produced[t].base # 100 * PriceScale
            /\ produced[t].base = produced[t].prev

(***************************************************************************)
(* The volume of a quote.                                                  *)
(***************************************************************************)
\* C30: the volume of every event the generator has built is in 1000..5999 for
\* AAPL, MSFT and TSLA and in 100..1099 for every other symbol.
C30_VolumeByTier ==
    \A t \in DOMAIN produced :
        IF t \in {"AAPL", "MSFT", "TSLA"}
        THEN produced[t].event.volume \in 1000..5999
        ELSE produced[t].event.volume \in 100..1099

\* C30 witness: events with the largest volume of each tier and with the smallest
\* volume of each tier have been built
C30_Witness ==
    /\ DOMAIN produced = Tracked
    /\ produced["AAPL"].event.volume = 5999
    /\ produced["MSFT"].event.volume = 1000
    /\ produced["GOOGL"].event.volume = 1099
    /\ produced["GOOGL"].count = 2
    /\ produced["GOOGL"].prev # None

(***************************************************************************)
(* The keep-alive listener's datagrams.                                    *)
(***************************************************************************)
\* the addresses whose latest update_ping changes in the step
Updated == {a \in Addr : lastUpdate'[a] # lastUpdate[a]}

\* the bytes start with P, I, N, G
StartsWithPing(b) ==
    Len(b) >= 4 /\ b[1] = "P" /\ b[2] = "I" /\ b[3] = "N" /\ b[4] = "G"

\* C31: the listener updates the monitor only for a datagram of at least 4 bytes
\* that starts with PING, and then for the datagram's source address alone, with
\* the time of the update; a receive error or any other datagram leaves the
\* monitor as it was and the listener back at recv_from; a datagram that starts
\* with PING is never skipped.
C31_OnlyPingUpdatesMonitor ==
    [][/\ (Updated # {} \/ listener.at = "locked") =>
                /\ listener.res = "Ok"
                /\ StartsWithPing(listener.buf)
                /\ listener.addr \in Addr
                /\ Updated \subseteq {listener.addr}
       /\ (listener.at = "locked" /\ listener'.at = "recv") =>
                /\ DOMAIN clients' = (DOMAIN clients) \cup {listener.addr}
                /\ clients'[listener.addr] = ClientConnection(now)
                /\ \A a \in (DOMAIN clients) \ {listener.addr} : clients'[a] = clients[a]
       /\ (listener.at = "recv" /\ listener' # listener) =>
                /\ clients' = clients
                /\ lastUpdate' = lastUpdate
                /\ listener'.at = "recv" <=>
                        (listener'.res = "Err" \/ ~StartsWithPing(listener'.buf))
                /\ listener'.at = "locked" <=>
                        (listener'.res = "Ok" /\ StartsWithPing(listener'.buf))]_vars

\* C31 witness: the listener is back at recv_from after a datagram of three bytes,
\* P I N, from an address whose record still carries the time of an earlier PING,
\* while the other address has never been recorded
C31_Witness ==
    /\ listener.at = "recv"
    /\ listener.res = "Ok"
    /\ listener.buf = <<"P", "I", "N">>
    /\ listener.addr \in DOMAIN clients
    /\ clients[listener.addr].last_ping < now
    /\ \E a \in Addr : a # listener.addr /\ lastUpdate[a] = None

(***************************************************************************)
(* The timeout scanner's notices.                                          *)
(***************************************************************************)
\* the step is a stop_tx.send(a) of the scanner
SendsNotice(a) ==
    /\ a \in timed_out_clients
    /\ stop_rx' = Append(stop_rx, a)
    /\ timed_out_clients' = timed_out_clients \ {a}

\* every address a check_timeouts call returns is put on the stop channel exactly
\* once: the call's result is what the scanner has to send, the scanner starts no
\* other call before it is through, every send takes one address off what is left
\* to send, and nothing else does
ForwardsEachOnce ==
    [][/\ lastScanTime' # lastScanTime =>
                (timed_out_clients = {} /\ timed_out_clients' = lastResult')
       /\ Len(stop_rx') > Len(stop_rx) => \E a \in Addr : SendsNotice(a)
       /\ timed_out_clients' # timed_out_clients =>
                (lastScanTime' # lastScanTime \/ \E a \in Addr : SendsNotice(a))]_vars

\* the scanner is outside the lock while it has notices to send, and while it is
\* inside it waits for nothing: check_timeouts can end at once
SendsOutsideLock ==
    /\ timed_out_clients # {} => scanner.at = "sleep"
    /\ mutex <=> (listener.at = "locked" \/ scanner.at = "locked")
    /\ scanner.at = "locked" => ENABLED ScannerUnlock

\* as long as the process lives, the scanner gets through its sends and the main
\* loop takes every notice off the stop channel
NoticesReceivedUnlessAborted ==
    []<>((timed_out_clients = {} /\ stop_rx = << >>) \/ ~process_alive)

\* C32: the scanner puts every address a check_timeouts call returned on the stop
\* channel exactly once, holds the monitor's lock during check_timeouts only, and
\* every notice is received by the main loop in the end: again and again nothing is
\* left to send and the stop channel is empty.
C32_NoticesForwardedAndReceived ==
    /\ ForwardsEachOnce
    /\ [](timed_out_clients # {} => scanner.at = "sleep")
    /\ []<>(timed_out_clients = {} /\ stop_rx = << >>)

(***************************************************************************)
(* The order of a subscriber's quotes.                                     *)
(***************************************************************************)
\* the position of a ticker in the generator's list
TickerIndex(t) == CHOOSE i \in 1..Len(tickers) : tickers[i] = t

\* the generator broadcast e1 before e2: in an earlier cycle, or earlier in the
\* same cycle
BroadcastBefore(e1, e2) ==
    \/ e1.cycle < e2.cycle
    \/ e1.cycle = e2.cycle /\ TickerIndex(e1.ticker) < TickerIndex(e2.ticker)

\* C33: of any two quotes a dispatcher has sent to its subscriber, one was sent
\* before the other if and only if the generator broadcast it before the other.
C33_SentInBroadcastOrder ==
    \A s \in 1..Len(streams) :
        \A i, j \in 1..Len(streams[s].sent) :
            (i < j) <=> BroadcastBefore(streams[s].sent[i], streams[s].sent[j])

\* C33 witness: a dispatcher has sent four quotes of two cycles, has taken events
\* it did not ask for in between, and two more events wait in its channel
C33_Witness ==
    \E s \in 1..Len(streams) :
        /\ Len(streams[s].sent) = 4
        /\ Len(streams[s].recvd) > 4
        /\ streams[s].sent[1].cycle < streams[s].sent[4].cycle
        /\ Len(streams[s].data_rx) >= 2

(***************************************************************************)
(* A client that keeps pinging.                                            *)
(***************************************************************************)
\* C34: a client whose PING arrives every INTERVAL_MS is never returned by
\* check_timeouts, whatever the order of the listener's and the scanner's steps: no
\* call has returned its address or is about to, its record stays in the map once
\* its first PING is recorded, and no notice for it is sent or waits on the stop
\* channel, so that the main loop is never told to evict it.
C34_PingingClientNeverTimedOut ==
    /\ reportLog[Subscriber] = << >>
    /\ Subscriber \notin lastResult
    /\ scanner.at = "locked" =>
            Subscriber \notin check_timeouts_result(scanner.view, scanner.t)
    /\ lastUpdate[Subscriber] # None => Subscriber \in DOMAIN clients
    /\ Subscriber \notin timed_out_clients
    /\ \A i \in 1..Len(stop_rx) : stop_rx[i] # Subscriber

\* C34 witness: the scanner is inside check_timeouts, about to report the other
\* address and to keep the client's record, while the client's next PING has
\* arrived and the listener waits for the lock; four PINGs were recorded before
C34_Witness ==
    /\ scanner.at = "locked"
    /\ KeepAlivePending
    /\ listener.at = "recv"
    /\ Subscriber \in DOMAIN scanner.view
    /\ check_timeouts_result(scanner.view, scanner.t) = {Other}
    /\ lastUpdate[Subscriber] = 4 * ping_interval

(***************************************************************************)
(* A subscription the generator cannot take.                               *)
(***************************************************************************)
\* C35: when the main loop takes a command while the generator's end of the
\* subscription channel is gone, so that the send on it fails, it leaves
\* active_streams as it is, spawns no dispatcher and touches none, and goes on:
\* the command is off the channel and the main thread lives.
C35_FailedSubscriptionChangesNothing ==
    [][(cmd_rx # << >> /\ cmd_rx' = Tail(cmd_rx) /\ gen_idx = None) =>
            /\ active_streams' = active_streams
            /\ streams' = streams
            /\ subscribe_rx' = subscribe_rx
            /\ gen_clients' = gen_clients
            /\ process_alive']_vars

\* C35 witness: the generator thread has ended with one dispatcher spawned before,
\* both connections delivered a command, the main loop has taken both, and there
\* is still one dispatcher and one entry
C35_Witness ==
    /\ gen_idx = None
    /\ conns = 2
    /\ receiver = "running"
    /\ cmd_rx = << >>
    /\ Len(streams) = 1
    /\ DOMAIN active_streams = {streams[1].addr}
    /\ streams[1].state = "Running"

(***************************************************************************)
(* Subscriptions to nothing the generator produces.                        *)
(***************************************************************************)
\* the list asks for no symbol the generator produces
Untracked(tks) == tks \cap Tracked = {}

\* C36: a command whose list is empty or names no symbol of the generator gets its
\* entry in active_streams and a Running dispatcher like any other, and such a
\* dispatcher never sends a quote: its sent history stays empty and it never
\* meets a send error.
C36_UntrackedSubscriptionIsSilent ==
    /\ [](\A s \in 1..Len(streams) :
                Untracked(streams[s].tickers_str) =>
                    (streams[s].sent = << >> /\ streams[s].exit # "send error"))
    /\ [][(cmd_rx # << >> /\ cmd_rx' = Tail(cmd_rx) /\ Untracked(Head(cmd_rx).tickers)) =>
                LET msg == Head(cmd_rx)
                    s == Len(streams) + 1
                IN  /\ Len(streams') = s
                    /\ msg.addr \in DOMAIN active_streams'
                    /\ active_streams'[msg.addr] = s
                    /\ streams'[s].state = "Running"
                    /\ streams'[s].addr = msg.addr
                    /\ streams'[s].tickers_str = msg.tickers]_vars

\* C36 witness: the dispatcher of a subscription with an empty list is Running,
\* has its map entry, has taken the four events of a cycle and sent nothing, while
\* the dispatcher of a subscription to AAPL and MSFT has sent its two quotes
C36_Witness ==
    \E s, r \in 1..Len(streams) :
        /\ streams[s].tickers_str = {}
        /\ streams[s].state = "Running"
        /\ streams[s].addr \in DOMAIN active_streams
        /\ active_streams[streams[s].addr] = s
        /\ Len(streams[s].recvd) = Len(tickers)
        /\ streams[s].sent = << >>
        /\ Len(streams[r].sent) = 2

(***************************************************************************)
(* Subscribing again after a timeout.                                      *)
(***************************************************************************)
\* the number of events the generator has produced in the cycles after cycle k
ProducedSince(k) ==
    IF cycle <= k THEN 0
    ELSE (cycle - k - 1) * Len(tickers) + (IF gen_idx = 0 THEN Len(tickers) ELSE gen_idx - 1)

\* C37: a command from an address whose entry a timeout has removed creates a new
\* entry and a new Running dispatcher and leaves the earlier dispatchers as they
\* are; while it runs, that dispatcher has been offered every event of the cycles
\* that started after it registered, and no event of an earlier cycle.
C37_ResubscribesAfterEviction ==
    /\ [][(cmd_rx # << >> /\ cmd_rx' = Tail(cmd_rx) /\ evicted(Head(cmd_rx).addr)) =>
                LET msg == Head(cmd_rx)
                    s == Len(streams) + 1
                IN  /\ Len(streams') = s
                    /\ msg.addr \in DOMAIN active_streams'
                    /\ active_streams'[msg.addr] = s
                    /\ streams'[s].state = "Running"
                    /\ streams'[s].addr = msg.addr
                    /\ streams'[s].reborn
                    /\ \A r \in 1..Len(streams) : streams'[r] = streams[r]]_vars
    /\ [](\A s \in 1..Len(streams) :
                (streams[s].reborn /\ streams[s].state = "Running") =>
                    /\ Len(Offered(s)) = ProducedSince(streams[s].subscribed.cycle)
                    /\ \A i \in 1..Len(Offered(s)) :
                            Offered(s)[i].cycle > streams[s].subscribed.cycle)

\* C37 witness: a dispatcher was stopped on a timeout of its address, and the
\* dispatcher of a later subscription from that address is Running, has its map
\* entry and has been offered the whole cycle that started after it registered
C37_Witness ==
    \E r, s \in 1..Len(streams) :
        /\ r < s
        /\ streams[r].addr = streams[s].addr
        /\ streams[r].exit = "stop"
        /\ streams[s].reborn
        /\ streams[s].state = "Running"
        /\ active_streams[streams[s].addr] = s
        /\ Len(Offered(s)) = Len(tickers)
        /\ Len(streams[s].sent) = 2

(***************************************************************************)
(* The client's shutdown.                                                  *)
(***************************************************************************)
\* the step is a return of socket.recv in the receiver loop
RecvReturns ==
    /\ client.recv = "recv"
    /\ <<client'.recv, client'.last, client'.got>> # <<client.recv, client.last, client.got>>

\* C38: once the shutdown flag is set the receiver loop returns Ok in the end, at
\* its next receive at the latest, whether that returns a datagram or fails; the
\* ping thread stops in the end; and at most one PING is sent with the flag set.
C38_ShutdownReturnsOk ==
    /\ client.shutdown ~> client.recv = "Ok"
    /\ [][(client.shutdown /\ RecvReturns) => client'.recv = "Ok"]_vars
    /\ client.shutdown ~> client.ping = "stopped"
    /\ [](client.late <= 1)

\* C38 as amended: once the shutdown flag is set the receiver loop returns in the
\* end, at its next receive at the latest: Ok when that receive returns a datagram,
\* the read timeout or ConnectionReset, Err when it fails with any other error (as
\* it does with the flag clear); the ping thread stops in the end; and at most
\* one PING is sent with the flag set.
C38_ShutdownReturns ==
    /\ client.shutdown ~> client.recv # "recv"
    /\ [][(client.shutdown /\ RecvReturns) =>
                client'.recv = (IF client'.last = "Other" THEN "Err" ELSE "Ok")]_vars
    /\ [](client.recv = "Err" <=> client.last = "Other")
    /\ [](client.recv = "Ok" => client.shutdown)
    /\ client.shutdown ~> client.ping = "stopped"
    /\ [](client.late <= 1)

\* C38 witness: with the flag set, the receiver loop has returned Ok at a datagram
\* and the ping thread has stopped after one more PING
C38_Witness ==
    /\ client.shutdown
    /\ client.recv = "Ok"
    /\ client.last = "Ok"
    /\ client.ping = "stopped"
    /\ client.late = 1
    /\ client.sent > 1

====
